---- MODULE Spec2Model ----
(***************************************************************************)
(* Attack tree analyzer: the normaliser, the evaluation functions          *)
(* (app/model.py) and the session-held specification with its edit and     *)
(* sensitivity handlers (app/routes.py).                                   *)
(*                                                                         *)
(* Numbers are exact rationals <<num, den>> in lowest terms with den > 0.  *)
(* Every number the model feeds in is a dyadic rational of small           *)
(* magnitude, on which IEEE double products, sums and differences are      *)
(* exact, so the rational arithmetic coincides with the float arithmetic   *)
(* of the code on the modelled inputs.  Python's None is <<>> for numbers  *)
(* and NoneStr for identifiers, labels and types.                          *)
(***************************************************************************)
EXTENDS Integers, Sequences, FiniteSets, TLC

VARIABLES spec, sensitivity, req, out

vars == <<spec, sensitivity, req, out>>

(* ------------------------------ bounds --------------------------------- *)

\* longest children list enumerated (lists are without repetition)
MaxChildren == 2
\* longest `nodes` sequence of an enumerated document
MaxNodes == 2
\* largest k passed to top_contributors
MaxK == 3
\* depth at which the interpreter aborts a recursion with RecursionError
RecursionLimit == 6
\* largest numerator/denominator magnitude a committed probability may reach
MaxMagnitude == 3

(* ------------------------------ numbers -------------------------------- *)

None == <<>>
NoneStr == "<None>"

Abs(x) == IF x < 0 THEN -x ELSE x

RECURSIVE GCD(_, _)
GCD(a, b) == IF b = 0 THEN a ELSE GCD(b, a % b)

Norm(n, d) ==
    LET g == GCD(Abs(n), Abs(d))
        s == IF d < 0 THEN -1 ELSE 1
    IN  <<(s * n) \div g, (s * d) \div g>>

Rat(n, d) == Norm(n, d)
Zero == <<0, 1>>
One == <<1, 1>>

RMul(x, y) == Norm(x[1] * y[1], x[2] * y[2])
RAdd(x, y) == Norm(x[1] * y[2] + y[1] * x[2], x[2] * y[2])
RSub(x, y) == Norm(x[1] * y[2] - y[1] * x[2], x[2] * y[2])
RLe(x, y) == x[1] * y[2] <= y[1] * x[2]
RLt(x, y) == x[1] * y[2] < y[1] * x[2]
RMin(x, y) == IF RLe(x, y) THEN x ELSE y

(* --------------------------- node mappings ----------------------------- *)
\* A node mapping (a Python dict in insertion order) is a sequence of node
\* records with pairwise different ids.

Keys(nodes) == {nodes[i].id : i \in DOMAIN nodes}
Has(nodes, id) == id \in Keys(nodes)
IndexOf(nodes, id) == CHOOSE i \in DOMAIN nodes : nodes[i].id = id
Get(nodes, id) == nodes[IndexOf(nodes, id)]
Put(nodes, id, node) == [nodes EXCEPT ![IndexOf(nodes, id)] = node]

Range(s) == {s[i] : i \in DOMAIN s}

NoSpec == [root |-> NoneStr, nodes |-> <<>>]

(* ------------------------------ normaliser ----------------------------- *)

\* str.upper() on the type strings that occur in the modelled documents
Upper(s) ==
    CASE s = "leaf" -> "LEAF"
      [] s = "Leaf" -> "LEAF"
      [] s = "or"   -> "OR"
      [] s = "and"  -> "AND"
      [] s = "xor"  -> "XOR"
      [] OTHER      -> s

\* typ = (n["type"] or "").upper()
NormType(t) == IF t = NoneStr THEN "" ELSE Upper(t)

\* _normalise_node that copies children, prob and impact whatever the kind
_normalise_node_keeps_declared(node) ==
    [id |-> node.id, label |-> node.label, type |-> NormType(node.type),
     children |-> node.children, prob |-> node.prob, impact |-> node.impact]

\* A raw node is a record [id, label, type, children, prob, impact]; an
\* absent key is NoneStr / None (dict.get) and absent children are <<>>.
_normalise_node(node) ==
    LET typ == NormType(node.type)
    IN  IF typ = "LEAF"
        THEN [id |-> node.id, label |-> node.label, type |-> typ,
              children |-> <<>>, prob |-> node.prob, impact |-> node.impact]
        ELSE [id |-> node.id, label |-> node.label, type |-> typ,
              children |-> node.children, prob |-> None, impact |-> None]

SpecOk(root_id, nodes_map) ==
    [ok |-> TRUE, err |-> "", msg |-> "", id |-> "", child |-> "",
     spec |-> [root |-> root_id, nodes |-> nodes_map]]

SpecError(msg, id, child) ==
    [ok |-> FALSE, err |-> "SpecError", msg |-> msg, id |-> id,
     child |-> child, spec |-> NoSpec]

\* MergeInto that lets the later declaration overwrite all three fields
MergeIntoOverwrite(existing, node) ==
    [existing EXCEPT !.prob = node.prob, !.impact = node.impact,
                     !.children = node.children]

\* the body of the branch `if nid in nodes_map` after the type check
MergeInto(existing, node) ==
    LET e1 == IF node.prob # None
              THEN [existing EXCEPT !.prob = node.prob] ELSE existing
        e2 == IF node.impact # None
              THEN [e1 EXCEPT !.impact = node.impact] ELSE e1
    IN  IF node.children # <<>>
        THEN [e2 EXCEPT !.children = node.children] ELSE e2

\* A value that is not a mapping where a mapping is expected (a string or a
\* number), and a number where a string is expected.
Scalar == [scalar |-> TRUE]
NotAString == "<5>"

IsDict(v) == v # Scalar

\* an exception that is not a SpecError leaves the normaliser
OtherError(err) ==
    [ok |-> FALSE, err |-> err, msg |-> "", id |-> "", child |-> "",
     spec |-> NoSpec]

\* _normalise_node raises AttributeError: node.get on a scalar, .upper() on
\* a number, c.get on a child element that is a number
_normalise_node_raises(node) ==
    IF ~IsDict(node) THEN TRUE
    ELSE IF node.type = NotAString THEN TRUE
    ELSE /\ NormType(node.type) # "LEAF"
         /\ \E j \in DOMAIN node.children : node.children[j] = NotAString

\* for raw_node in nodes_list: ... ; yields the merged mapping or the error
RECURSIVE MergeNodes(_, _)
MergeNodes(nodes_map, nodes_list) ==
    IF nodes_list = <<>>
    THEN SpecOk(NoneStr, nodes_map)
    ELSE IF _normalise_node_raises(Head(nodes_list))
    THEN OtherError("AttributeError")
    ELSE LET node == _normalise_node(Head(nodes_list))
             nid == node.id
         IN  IF nid = NoneStr
             THEN SpecError("Each node must have an 'id'", NoneStr, "")
             ELSE IF Has(nodes_map, nid)
             THEN IF Get(nodes_map, nid).type # node.type
                  THEN SpecError("Duplicate node id with conflicting types",
                                 nid, "")
                  ELSE MergeNodes(Put(nodes_map, nid,
                                      MergeInto(Get(nodes_map, nid), node)),
                                  Tail(nodes_list))
             ELSE MergeNodes(Append(nodes_map, node), Tail(nodes_list))

\* UnknownRefs that looks at the children of the root entry only
UnknownRefsRootOnly(nodes_map) ==
    {<<1, j>> : j \in {k \in DOMAIN nodes_map[1].children :
                         /\ nodes_map[1].type # "LEAF"
                         /\ ~Has(nodes_map, nodes_map[1].children[k])}}

\* positions <<i, j>> of the children that are not keys, in iteration order
UnknownRefs(nodes_map) ==
    UNION {{<<i, j>> : j \in {k \in DOMAIN nodes_map[i].children :
                                ~Has(nodes_map, nodes_map[i].children[k])}} :
           i \in {n \in DOMAIN nodes_map : nodes_map[n].type # "LEAF"}}

PosBefore(p, q) == p[1] < q[1] \/ (p[1] = q[1] /\ p[2] <= q[2])

FirstUnknownRef(nodes_map) ==
    CHOOSE p \in UnknownRefs(nodes_map) :
        \A q \in UnknownRefs(nodes_map) : PosBefore(p, q)

\* the closing loop "Validate that all children references exist"
ValidateChildren(root_id, nodes_map) ==
    IF UnknownRefs(nodes_map) = {}
    THEN SpecOk(root_id, nodes_map)
    ELSE LET p == FirstUnknownRef(nodes_map)
         IN  SpecError("references unknown child", nodes_map[p[1]].id,
                       nodes_map[p[1]].children[p[2]])

\* A document is the top-level mapping [id, label, type, children, nodes].
_build_internal_spec(d) ==
    IF ~IsDict(d)
    THEN SpecError("Spec must be a mapping at the top level", NoneStr, "")
    ELSE IF d.id = NoneStr
    THEN SpecError("Missing 'id' for root node", NoneStr, "")
    ELSE IF _normalise_node_raises([type |-> d.type, children |-> d.children])
    THEN OtherError("AttributeError")
    ELSE LET root_node == [id |-> d.id, label |-> d.label, type |-> d.type,
                           children |-> d.children,
                           prob |-> None, impact |-> None]
             merged == MergeNodes(<<_normalise_node(root_node)>>, d.nodes)
         IN  IF ~merged.ok THEN merged
             ELSE ValidateChildren(d.id, merged.spec.nodes)

\* content the reader cannot decode (malformed text, unsupported extension)
Unreadable == [unreadable |-> TRUE]

\* the readers hand the decoded document to the normaliser; their own
\* failures are wrapped into SpecError
parse_spec(d) ==
    IF d = Unreadable THEN SpecError("Failed to parse spec", NoneStr, "")
    ELSE _build_internal_spec(d)

(* ------------------------------ evaluation ----------------------------- *)

Value(v) == [ok |-> TRUE, val |-> v, err |-> "", msg |-> "", id |-> ""]
Raise(err, msg, id) ==
    [ok |-> FALSE, val |-> None, err |-> err, msg |-> msg, id |-> id]

\* result = 1.0; for cp in child_probs: result *= cp
RECURSIVE AndLoop(_, _)
AndLoop(result, child_probs) ==
    IF child_probs = <<>> THEN result
    ELSE AndLoop(RMul(result, Head(child_probs)), Tail(child_probs))

\* p_not = 1.0; for cp in child_probs: p_not *= 1.0 - cp
RECURSIVE OrLoop(_, _)
OrLoop(p_not, child_probs) ==
    IF child_probs = <<>> THEN p_not
    ELSE OrLoop(RMul(p_not, RSub(One, Head(child_probs))), Tail(child_probs))

\* Combine with the complement of the OR branch forgotten
CombineNoComplement(typ, node_id, child_probs) ==
    IF typ = "AND" THEN Value(AndLoop(One, child_probs))
    ELSE IF typ = "OR" THEN Value(OrLoop(One, child_probs))
    ELSE Raise("ValueError", "Unknown node type", node_id)

\* Combine with the closing raise replaced by a default value
CombineUnknownZero(typ, node_id, child_probs) ==
    IF typ = "AND" THEN Value(AndLoop(One, child_probs))
    ELSE IF typ = "OR" THEN Value(RSub(One, OrLoop(One, child_probs)))
    ELSE Value(Zero)

\* what _prob returns for an internal node once its children are evaluated
Combine(typ, node_id, child_probs) ==
    IF typ = "AND" THEN Value(AndLoop(One, child_probs))
    ELSE IF typ = "OR" THEN Value(RSub(One, OrLoop(One, child_probs)))
    ELSE Raise("ValueError", "Unknown node type", node_id)

\* _prob at call depth `depth`; child_probs is the list comprehension, which
\* stops at the first child whose evaluation raises.  A call nested deeper
\* than the interpreter's limit raises RecursionError.
RECURSIVE _prob(_, _, _), child_probs_of(_, _, _)
_prob(nodes, node_id, depth) ==
    IF depth > RecursionLimit
    THEN Raise("RecursionError", "maximum recursion depth exceeded", node_id)
    ELSE IF ~Has(nodes, node_id)
    THEN Raise("KeyError", "", node_id)
    ELSE LET node == Get(nodes, node_id)
             typ == node.type
         IN  IF typ = "LEAF"
             THEN IF node.prob = None
                  THEN Raise("ValueError", "Missing probability for leaf",
                             node_id)
                  ELSE Value(node.prob)
             ELSE LET cps == child_probs_of(nodes, node.children, depth + 1)
                  IN  IF ~cps.ok THEN cps
                      ELSE Combine(typ, node_id, cps.val)

child_probs_of(nodes, children, depth) ==
    IF children = <<>> THEN Value(<<>>)
    ELSE LET h == _prob(nodes, Head(children), depth)
         IN  IF ~h.ok THEN h
             ELSE LET t == child_probs_of(nodes, Tail(children), depth)
                  IN  IF ~t.ok THEN t ELSE Value(<<h.val>> \o t.val)

compute_probabilities(root_id, nodes) == _prob(nodes, root_id, 1)

\* LossLoop that passes over a leaf without impact instead of raising
RECURSIVE LossLoopSkipsImpact(_, _, _)
LossLoopSkipsImpact(nodes, i, total) ==
    IF i > Len(nodes) THEN Value(total)
    ELSE LET node == nodes[i]
         IN  IF node.type # "LEAF" \/ (node.prob # None /\ node.impact = None)
             THEN LossLoopSkipsImpact(nodes, i + 1, total)
             ELSE IF node.prob = None
             THEN Raise("ValueError", "Missing probability for leaf", node.id)
             ELSE LossLoopSkipsImpact(nodes, i + 1,
                                      RAdd(total, RMul(node.prob, node.impact)))

\* for node in nodes.values(): ... total += float(prob) * float(impact)
RECURSIVE LossLoop(_, _, _)
LossLoop(nodes, i, total) ==
    IF i > Len(nodes) THEN Value(total)
    ELSE LET node == nodes[i]
         IN  IF node.type # "LEAF" THEN LossLoop(nodes, i + 1, total)
             ELSE IF node.prob = None
             THEN Raise("ValueError", "Missing probability for leaf", node.id)
             ELSE IF node.impact = None
             THEN Raise("ValueError", "Missing impact for leaf", node.id)
             ELSE LossLoop(nodes, i + 1,
                           RAdd(total, RMul(node.prob, node.impact)))

expected_loss(nodes) == LossLoop(nodes, 1, Zero)

\* the list `contributions` before sorting, in mapping order
RECURSIVE Contributions(_, _)
Contributions(nodes, i) ==
    IF i > Len(nodes) THEN <<>>
    ELSE LET node == nodes[i]
             rest == Contributions(nodes, i + 1)
         IN  IF node.type = "LEAF" /\ node.prob # None /\ node.impact # None
             THEN <<[id |-> node.id, label |-> node.label,
                     value |-> RMul(node.prob, node.impact)]>> \o rest
             ELSE rest

\* InsertDesc that puts x before the entries of equal value
RECURSIVE InsertDescUnstable(_, _)
InsertDescUnstable(sorted, x) ==
    IF sorted = <<>> THEN <<x>>
    ELSE IF RLt(x.value, Head(sorted).value)
         THEN <<Head(sorted)>> \o InsertDescUnstable(Tail(sorted), x)
         ELSE <<x>> \o sorted

\* list.sort(key=value, reverse=True): a stable sort, equal keys keep their
\* original relative order.  Insert x after every entry whose value is >= x.
RECURSIVE InsertDesc(_, _)
InsertDesc(sorted, x) ==
    IF sorted = <<>> THEN <<x>>
    ELSE IF RLe(x.value, Head(sorted).value)
         THEN <<Head(sorted)>> \o InsertDesc(Tail(sorted), x)
         ELSE <<x>> \o sorted

RECURSIVE SortDesc(_, _)
SortDesc(sorted, rest) ==
    IF rest = <<>> THEN sorted
    ELSE SortDesc(InsertDesc(sorted, Head(rest)), Tail(rest))

\* contributions[:k] for k >= 0
Take(s, k) == SubSeq(s, 1, IF k < Len(s) THEN k ELSE Len(s))

top_contributors(nodes, k) == Take(SortDesc(<<>>, Contributions(nodes, 1)), k)

(* ------------------------------- handlers ------------------------------ *)
\* The session holds `spec` (NoSpec when absent) and `sensitivity` (NoSens
\* when absent).  req is the request the last handler served, out is what
\* it answered.

NoSens == [leaf_id |-> NoneStr, multiplier |-> None,
           p_top |-> None, e_loss |-> None]

\* float(s) on the strings the modelled forms submit; anything else raises
\* ValueError
NumStrs == {"-4", "-1", "0", "0.5", "1", "1.5", "2", "3", "4"}
IsFloat(s) == s \in NumStrs
Float(s) ==
    CASE s = "-4"  -> Rat(-4, 1)
      [] s = "-1"  -> Rat(-1, 1)
      [] s = "0"   -> Rat(0, 1)
      [] s = "0.5" -> Rat(1, 2)
      [] s = "1"   -> Rat(1, 1)
      [] s = "1.5" -> Rat(3, 2)
      [] s = "2"   -> Rat(2, 1)
      [] s = "3"   -> Rat(3, 1)
      [] s = "4"   -> Rat(4, 1)

LeafIds(nodes) == {nodes[i].id : i \in {j \in DOMAIN nodes :
                                          nodes[j].type = "LEAF"}}

\* PopSensitivity left out: the stored result stays
PopSensitivityForgotten == UNCHANGED sensitivity

\* session.pop("sensitivity", None)
PopSensitivity == sensitivity' = NoSens

\* RejectUpload of a handler that empties the session before it parses
RejectUploadAfterClear == spec' = NoSpec /\ sensitivity' = NoSens

\* flash(...); return redirect(url_for("main.index")): nothing was stored
RejectUpload == UNCHANGED <<spec, sensitivity>>

\* session["spec"] = spec; session.pop("sensitivity", None)
StoreSpec(parsed) ==
    /\ spec' = parsed.spec
    /\ PopSensitivity

\* analyze_post, given the decoded upload
analyze_post(d) ==
    LET parsed == parse_spec(d)
    IN  /\ req' = [op |-> "analyze_post", doc |-> d]
        /\ IF parsed.ok
           THEN /\ StoreSpec(parsed)
                /\ out' = [ok |-> TRUE, flash |-> "", parsed |-> parsed]
           ELSE /\ RejectUpload
                /\ out' = [ok |-> FALSE,
                           flash |-> IF parsed.err = "SpecError"
                                     THEN "Specification error"
                                     ELSE "Failed to parse file",
                           parsed |-> parsed]

\* load_demo, given the scenario name and the decoded demo file
load_demo(scenario, d) ==
    /\ req' = [op |-> "load_demo", scenario |-> scenario, doc |-> d]
    /\ IF scenario \notin {"pre", "post"}
       THEN /\ RejectUpload
            /\ out' = [ok |-> FALSE, flash |-> "Unknown demo scenario",
                       parsed |-> SpecError("", "", "")]
       ELSE LET parsed == parse_spec(d)
            IN  IF parsed.ok
                THEN /\ StoreSpec(parsed)
                     /\ out' = [ok |-> TRUE, flash |-> "", parsed |-> parsed]
                ELSE /\ RejectUpload
                     /\ out' = [ok |-> FALSE, flash |-> "Failed to load demo",
                                parsed |-> parsed]

\* leaves.sort(key=id) over the ids of the model, ranked by IdRank
IdRank(id) == CHOOSE n \in 1..4 : <<"a", "b", "c", "r">>[n] = id

RECURSIVE SortedIds(_)
SortedIds(S) ==
    IF S = {} THEN <<>>
    ELSE LET m == CHOOSE x \in S : \A y \in S : IdRank(x) <= IdRank(y)
         IN  <<m>> \o SortedIds(S \ {m})

\* the try block of analyze_get: the three evaluations in sequence, the
\* first exception abandons the rest
analyze_get ==
    /\ req' = [op |-> "analyze_get"]
    /\ UNCHANGED <<spec, sensitivity>>
    /\ IF spec = NoSpec
       THEN out' = [rendered |-> FALSE, flash |-> "No specification is loaded"]
       ELSE LET nodes == spec.nodes
                p == compute_probabilities(spec.root, nodes)
                e == expected_loss(nodes)
            IN  out' = [rendered |-> TRUE, flash |-> "",
                        leaves |-> SortedIds(LeafIds(nodes)),
                        results_available |-> p.ok /\ e.ok,
                        p_top |-> IF p.ok THEN p.val ELSE None,
                        e_loss |-> IF p.ok /\ e.ok THEN e.val ELSE None,
                        top3 |-> IF p.ok /\ e.ok
                                 THEN top_contributors(nodes, 3) ELSE <<>>,
                        sensitivity |-> sensitivity]

\* one iteration of the loop of recalculate on a leaf: the new node
RecalcLeaf(node, fields) ==
    LET prob_val == IF fields.prob # "" /\ IsFloat(fields.prob)
                    THEN Float(fields.prob) ELSE None
        impact_val == IF fields.impact # "" /\ IsFloat(fields.impact)
                      THEN Float(fields.impact) ELSE None
    IN  [node EXCEPT !.prob = prob_val, !.impact = impact_val]

\* ... and the messages it appends to errors, in order
RecalcErrors(node, fields) ==
    LET badp == fields.prob # "" /\ ~IsFloat(fields.prob)
        badi == fields.impact # "" /\ ~IsFloat(fields.impact)
        n == RecalcLeaf(node, fields)
        rngp == n.prob # None /\ ~(RLe(Zero, n.prob) /\ RLe(n.prob, One))
        rngi == n.impact # None /\ RLt(n.impact, Zero)
    IN  (IF badp THEN <<[msg |-> "Invalid probability", id |-> node.id]>>
         ELSE <<>>)
        \o (IF badi THEN <<[msg |-> "Invalid impact", id |-> node.id]>>
            ELSE <<>>)
        \o (IF rngp THEN <<[msg |-> "Probability must be between 0 and 1",
                            id |-> node.id]>> ELSE <<>>)
        \o (IF rngi THEN <<[msg |-> "Impact must be non-negative",
                            id |-> node.id]>> ELSE <<>>)

RECURSIVE RecalcAllErrors(_, _, _)
RecalcAllErrors(nodes, form, i) ==
    IF i > Len(nodes) THEN <<>>
    ELSE (IF nodes[i].type = "LEAF"
          THEN RecalcErrors(nodes[i], form[nodes[i].id]) ELSE <<>>)
         \o RecalcAllErrors(nodes, form, i + 1)

\* recalculate, given the submitted form: for every leaf id the stripped
\* strings of prob_<id> and impact_<id>, "" when the field is absent
recalculate(form) ==
    /\ req' = [op |-> "recalculate", form |-> form]
    /\ IF spec = NoSpec
       THEN /\ UNCHANGED <<spec, sensitivity>>
            /\ out' = [done |-> FALSE, errors |-> <<>>]
       ELSE /\ spec' = [spec EXCEPT !.nodes =
                          [i \in DOMAIN spec.nodes |->
                             IF spec.nodes[i].type = "LEAF"
                             THEN RecalcLeaf(spec.nodes[i],
                                             form[spec.nodes[i].id])
                             ELSE spec.nodes[i]]]
            /\ PopSensitivity
            /\ out' = [done |-> TRUE,
                       errors |-> RecalcAllErrors(spec.nodes, form, 1)]

\* NewProb without the upper clamp
NewProbUnclamped(base_prob, multiplier) == RMul(base_prob, multiplier)

\* new_prob = min(float(base_prob) * multiplier, 1.0)
NewProb(base_prob, multiplier) == RMin(RMul(base_prob, multiplier), One)

\* SetProb that writes the probability into every leaf
SetProbAllLeaves(nodes, leaf_id, p) ==
    [i \in DOMAIN nodes |-> IF nodes[i].type = "LEAF"
                            THEN [nodes[i] EXCEPT !.prob = p] ELSE nodes[i]]

\* nodes[leaf_id]["prob"] = p
SetProb(nodes, leaf_id, p) ==
    Put(nodes, leaf_id, [Get(nodes, leaf_id) EXCEPT !.prob = p])

\* Refuse that also drops the stored result
RefuseAndForget(flash) ==
    /\ out' = [stored |-> FALSE, flash |-> flash]
    /\ sensitivity' = NoSens

\* flash(...); return redirect(...): nothing is stored, the session keeps
\* what it held
Refuse(flash) ==
    /\ out' = [stored |-> FALSE, flash |-> flash]
    /\ UNCHANGED sensitivity

\* OriginalAfterClone for a clone that shares the node dictionaries
OriginalAfterShallowCopy(nodes, cloned_nodes) == cloned_nodes

\* cloned_nodes = copy.deepcopy(nodes): the nodes the session holds once the
\* clone has been written to
OriginalAfterClone(nodes, cloned_nodes) == nodes

\* run_sensitivity, given the form fields leaf_id (NoneStr when not
\* submitted) and the stripped multiplier string
run_sensitivity(leaf_id, multiplier_str) ==
    /\ req' = [op |-> "run_sensitivity", leaf_id |-> leaf_id,
               multiplier |-> multiplier_str]
    /\ IF spec = NoSpec
       THEN Refuse("No specification is loaded") /\ UNCHANGED spec
       ELSE IF ~IsFloat(multiplier_str)
       THEN Refuse("Multiplier must be a number") /\ UNCHANGED spec
       ELSE IF leaf_id \in {NoneStr, ""}
       THEN Refuse("Please select a leaf") /\ UNCHANGED spec
       ELSE IF ~Has(spec.nodes, leaf_id)
               \/ Get(spec.nodes, leaf_id).type # "LEAF"
       THEN Refuse("Selected node is not a valid leaf") /\ UNCHANGED spec
       ELSE IF Get(spec.nodes, leaf_id).prob = None
       THEN Refuse("The selected leaf is missing a probability")
            /\ UNCHANGED spec
       ELSE LET multiplier == Float(multiplier_str)
                new_prob == NewProb(Get(spec.nodes, leaf_id).prob, multiplier)
                cloned_nodes == SetProb(spec.nodes, leaf_id, new_prob)
                p_top == compute_probabilities(spec.root, cloned_nodes)
                e_loss == expected_loss(cloned_nodes)
            IN  /\ spec' = [spec EXCEPT !.nodes =
                              OriginalAfterClone(spec.nodes, cloned_nodes)]
                /\ IF ~p_top.ok \/ ~e_loss.ok
                   THEN Refuse("Cannot compute sensitivity results")
                   ELSE /\ sensitivity' = [leaf_id |-> leaf_id,
                                           multiplier |-> multiplier,
                                           p_top |-> p_top.val,
                                           e_loss |-> e_loss.val]
                        /\ out' = [stored |-> TRUE, flash |-> ""]

InMagnitude(x) == Abs(x[1]) <= MaxMagnitude /\ x[2] <= MaxMagnitude

\* CommitProb without the min(..., 1.0)
CommitProbUnclamped(base_prob, multiplier) == RMul(base_prob, multiplier)

\* nodes[leaf_id]["prob"] = min(float(base_prob) * float(multiplier), 1.0)
CommitProb(base_prob, multiplier) == NewProb(base_prob, multiplier)

\* apply_sensitivity; the stored result always carries leaf_id and
\* multiplier.  A commit whose product leaves the modelled magnitudes is
\* not explored.
apply_sensitivity ==
    /\ req' = [op |-> "apply_sensitivity"]
    /\ IF spec = NoSpec \/ sensitivity = NoSens
       THEN /\ UNCHANGED <<spec, sensitivity>>
            /\ out' = [applied |-> FALSE,
                       flash |-> "No sensitivity run to apply",
                       leaf_id |-> NoneStr, multiplier |-> None,
                       base_prob |-> None]
       ELSE LET leaf_id == sensitivity.leaf_id
                nodes == spec.nodes
                valid == /\ Has(nodes, leaf_id)
                         /\ Get(nodes, leaf_id).type = "LEAF"
                         /\ Get(nodes, leaf_id).prob # None
                committed == CommitProb(Get(nodes, leaf_id).prob,
                                        sensitivity.multiplier)
            IN  /\ valid => InMagnitude(committed)
                /\ spec' = IF valid
                           THEN [spec EXCEPT !.nodes =
                                    SetProb(nodes, leaf_id, committed)]
                           ELSE spec
                /\ PopSensitivity
                /\ out' = [applied |-> TRUE, flash |-> "",
                           leaf_id |-> leaf_id,
                           multiplier |-> sensitivity.multiplier,
                           base_prob |-> IF valid
                                         THEN Get(nodes, leaf_id).prob
                                         ELSE None]

\* download_spec: the document handed to yaml.safe_dump
RECURSIVE ExportNodes(_, _, _)
ExportNodes(nodes, root_id, i) ==
    IF i > Len(nodes) THEN <<>>
    ELSE LET node == nodes[i]
             entry == IF node.type = "LEAF"
                      THEN [id |-> node.id, label |-> node.label,
                            type |-> node.type, children |-> <<>>,
                            prob |-> node.prob, impact |-> node.impact]
                      ELSE [id |-> node.id, label |-> node.label,
                            type |-> node.type, children |-> node.children,
                            prob |-> None, impact |-> None]
         IN  (IF node.id = root_id THEN <<>> ELSE <<entry>>)
             \o ExportNodes(nodes, root_id, i + 1)

out_spec(s) ==
    [id |-> s.root, label |-> Get(s.nodes, s.root).label,
     type |-> Get(s.nodes, s.root).type,
     children |-> Get(s.nodes, s.root).children,
     nodes |-> ExportNodes(s.nodes, s.root, 1)]

download_spec ==
    /\ req' = [op |-> "download_spec"]
    /\ UNCHANGED <<spec, sensitivity>>
    /\ out' = IF spec = NoSpec
              THEN [sent |-> FALSE, doc |-> NoneStr]
              ELSE [sent |-> TRUE, doc |-> out_spec(spec)]

(* -------------------------------- inputs ------------------------------- *)
\* Labels are opaque to the code; the model uses the position of the
\* declaration (0 for the root) so that every declaration has its own label.

\* the children lists over S without repetition, up to MaxChildren long
ChildLists(S) ==
    {c \in UNION {[1..n -> S] : n \in 0..MaxChildren} :
        \A i, j \in DOMAIN c : i # j => c[i] # c[j]}

Raw(id, type, children, prob, impact) ==
    [id |-> id, label |-> 0, type |-> type, children |-> children,
     prob |-> prob, impact |-> impact]

\* (prob, impact) pairs of the enumerated declarations
RawValues == {<<None, None>>, <<Rat(1, 2), None>>, <<None, Rat(4, 1)>>,
              <<Rat(1, 1), Rat(2, 1)>>}

\* the entries of `nodes` the enumerated documents are made of
RawNodes ==
    {Raw(i, t, <<>>, v[1], v[2]) :
        i \in {"a", "b"}, t \in {"LEAF", "leaf"}, v \in RawValues}
    \cup {Raw(i, "LEAF", <<"a">>, None, None) : i \in {"a", "b"}}
    \cup {Raw(i, "OR", c, None, None) :
            i \in {"a", "b"}, c \in ChildLists({"a", "b"})}
    \cup {Raw(i, "OR", <<>>, Rat(1, 2), Rat(4, 1)) : i \in {"a", "b"}}
    \cup {Raw("r", "OR", <<"a">>, None, None),
          Raw("r", "or", <<>>, None, None),
          Raw("r", "LEAF", <<>>, Rat(1, 2), Rat(4, 1))}

Labelled(nodes) ==
    [i \in DOMAIN nodes |-> IF IsDict(nodes[i])
                            THEN [nodes[i] EXCEPT !.label = i] ELSE nodes[i]]

Document(id, type, children, nodes) ==
    [id |-> id, label |-> 0, type |-> type, children |-> children,
     nodes |-> Labelled(nodes)]

\* the `nodes` sequences of the documents the normaliser is checked on
NodeLists == UNION {[1..k -> RawNodes] : k \in 0..MaxNodes}
RootTypes == {"OR", "or", "LEAF"}

\* the node mappings the evaluation functions are checked on: the three
\* ids in two iteration orders, every node a leaf with or without values
\* or an internal node of kind AND, OR or of an unknown kind
EvalIds == {"r", "a", "b"}
EvalProbs == {None, Rat(1, 2), Rat(1, 4)}
EvalImpacts == {None, Rat(2, 1), Rat(4, 1)}

EvalNodes(id) ==
    {[id |-> id, label |-> IdRank(id), type |-> "LEAF", children |-> <<>>,
      prob |-> p, impact |-> v] : p \in EvalProbs, v \in EvalImpacts}
    \cup {[id |-> id, label |-> IdRank(id), type |-> t, children |-> c,
           prob |-> None, impact |-> None] :
            t \in {"AND", "OR"}, c \in ChildLists(EvalIds)}
    \cup {[id |-> id, label |-> IdRank(id), type |-> "XOR", children |-> c,
           prob |-> None, impact |-> None] : c \in {<<>>, <<"a">>}}

\* the uploads of the session model: the documents of tests/test_parser.py
\* on dyadic values, and one document for each of a cycle, an unreachable
\* incomplete leaf, an unknown kind and a leaf root
DocSimple ==
    Document("r", "OR", <<"a">>,
             <<Raw("a", "LEAF", <<>>, Rat(1, 2), Rat(4, 1))>>)
DocTwoLeaves ==
    Document("r", "AND", <<"a", "b">>,
             <<Raw("a", "LEAF", <<>>, Rat(1, 2), Rat(4, 1)),
               Raw("b", "LEAF", <<>>, Rat(1, 2), Rat(2, 1))>>)
DocMissingChild ==
    Document("r", "AND", <<"c">>,
             <<Raw("a", "LEAF", <<>>, Rat(1, 2), Rat(4, 1))>>)
DocCycle ==
    Document("r", "OR", <<"a", "r">>,
             <<Raw("a", "LEAF", <<>>, Rat(1, 2), Rat(4, 1))>>)
DocUnreachable ==
    Document("r", "OR", <<"a">>,
             <<Raw("a", "LEAF", <<>>, Rat(1, 2), Rat(4, 1)),
               Raw("b", "leaf", <<>>, None, None)>>)
DocUnknownKind ==
    Document("r", "XOR", <<"a">>,
             <<Raw("a", "LEAF", <<>>, Rat(1, 2), Rat(4, 1))>>)
DocLeafRoot ==
    Document("r", "LEAF", <<>>,
             <<Raw("r", "LEAF", <<>>, Rat(1, 2), Rat(4, 1))>>)

\* children declared on a leaf, prob and impact on a redeclaration of the
\* internal root
DocMisdeclared ==
    Document("r", "AND", <<"a">>,
             <<Raw("a", "LEAF", <<"r">>, Rat(1, 2), Rat(4, 1)),
               Raw("r", "and", <<>>, Rat(1, 2), Rat(4, 1))>>)

\* an entry of `nodes` that is a bare string
DocScalarEntry == Document("r", "OR", <<"a">>, <<Scalar>>)

AppDocs == {DocSimple, DocTwoLeaves, DocMissingChild, DocCycle,
            DocUnreachable, DocUnknownKind, DocLeafRoot, DocScalarEntry,
            DocMisdeclared, Unreadable}

\* what the two demo files may hold
DemoDocs == {DocTwoLeaves, DocMissingChild}

Scenarios == {"pre", "post", "other"}

\* what one leaf's two form fields may carry
FormFields ==
    {[prob |-> "", impact |-> ""], [prob |-> "0.5", impact |-> "4"],
     [prob |-> "1.5", impact |-> "4"], [prob |-> "0.5", impact |-> "-4"],
     [prob |-> "abc", impact |-> "abc"]}

\* the leaf_id field of a sensitivity request: not submitted, the root,
\* the leaf a, an id that no document declares
SensTargets == {NoneStr, "r", "a", "c"}
MultStrs == {"-1", "0", "2", "3", "abc"}

(* ---------------------------- specifications --------------------------- *)

Idle == [idle |-> TRUE]

\* the session of one client, from the first request on
Init ==
    /\ spec = NoSpec
    /\ sensitivity = NoSens
    /\ req = [op |-> "none"]
    /\ out = Idle

Next ==
    \/ \E d \in AppDocs : analyze_post(d)
    \/ \E sc \in Scenarios, d \in DemoDocs : load_demo(sc, d)
    \/ analyze_get
    \/ \E form \in [LeafIds(spec.nodes) -> FormFields] : recalculate(form)
    \/ \E leaf_id \in SensTargets, m \in MultStrs : run_sensitivity(leaf_id, m)
    \/ apply_sensitivity
    \/ download_spec

Spec == Init /\ [][Next]_vars

\* the normaliser applied to one enumerated document
InitNorm ==
    /\ spec = NoSpec
    /\ sensitivity = NoSens
    /\ \/ \E t \in RootTypes, c \in ChildLists({"a", "b"}), n \in NodeLists :
              req = [op |-> "normalise", doc |-> Document("r", t, c, n)]
       \/ req = [op |-> "normalise",
                 doc |-> Document(NoneStr, "OR", <<>>, <<>>)]
    /\ out = Idle

Normalise ==
    /\ out = Idle
    /\ out' = _build_internal_spec(req.doc)
    /\ spec' = out'.spec
    /\ UNCHANGED <<sensitivity, req>>

NextNorm == Normalise

SpecNorm == InitNorm /\ [][NextNorm]_vars

\* Generic values of any shape and kind, as a reader can hand them over:
\* entries of `nodes` that are scalars, kinds that are absent, unknown or not
\* strings, children elements that are not strings, entries without id.
ShapeEntries ==
    {Scalar,
     Raw("a", "LEAF", <<>>, Rat(1, 2), Rat(4, 1)),
     Raw("a", "Leaf", <<NotAString>>, None, None),
     Raw("a", NotAString, <<>>, None, None),
     Raw("a", "XOR", <<>>, None, None),
     Raw("b", NoneStr, <<>>, None, None),
     Raw("b", "and", <<"a">>, None, None),
     Raw("b", "OR", <<NotAString>>, None, None),
     Raw(NoneStr, "LEAF", <<>>, None, None)}

ShapeLists == UNION {[1..k -> ShapeEntries] : k \in 0..MaxNodes}

ShapeRootTypes == {"OR", "and", "XOR", NoneStr, NotAString}

ShapeRootChildren == {<<>>, <<"a">>, <<NotAString>>}

InitShape ==
    /\ spec = NoSpec
    /\ sensitivity = NoSens
    /\ \/ \E i \in {"r", NoneStr}, t \in ShapeRootTypes,
              c \in ShapeRootChildren, n \in ShapeLists :
              req = [op |-> "normalise", doc |-> Document(i, t, c, n)]
       \/ req = [op |-> "normalise", doc |-> Scalar]
    /\ out = Idle

SpecShape == InitShape /\ [][NextNorm]_vars

\* the evaluation functions applied to one enumerated node mapping; a
\* function, once called, may be called again on the same mapping
InitEval ==
    /\ \E r \in EvalNodes("r"), x \in EvalNodes("a"), y \in EvalNodes("b") :
          \/ spec = [root |-> "r", nodes |-> <<r, x, y>>]
          \/ spec = [root |-> "r", nodes |-> <<r, y, x>>]
    /\ sensitivity = NoSens
    /\ req = [op |-> "none"]
    /\ out = Idle

\* EvalProbability of a _prob that memoises the result in the root node
EvalProbabilityMemo ==
    LET p == compute_probabilities(spec.root, spec.nodes)
    IN  /\ req.op \in {"none", "compute_probabilities"}
        /\ req' = [op |-> "compute_probabilities"]
        /\ out' = p
        /\ spec' = IF p.ok
                   THEN [spec EXCEPT !.nodes = SetProb(spec.nodes, spec.root,
                                                       p.val)]
                   ELSE spec
        /\ UNCHANGED sensitivity

EvalProbability ==
    /\ req.op \in {"none", "compute_probabilities"}
    /\ req' = [op |-> "compute_probabilities"]
    /\ out' = compute_probabilities(spec.root, spec.nodes)
    /\ UNCHANGED <<spec, sensitivity>>

EvalExpectedLoss ==
    /\ req.op \in {"none", "expected_loss"}
    /\ req' = [op |-> "expected_loss"]
    /\ out' = expected_loss(spec.nodes)
    /\ UNCHANGED <<spec, sensitivity>>

EvalTopContributors(k) ==
    /\ req.op \in {"none", "top_contributors"}
    /\ req' = [op |-> "top_contributors", k |-> k]
    /\ out' = top_contributors(spec.nodes, k)
    /\ UNCHANGED <<spec, sensitivity>>

NextEval ==
    \/ EvalProbability
    \/ EvalExpectedLoss
    \/ \E k \in 0..MaxK : EvalTopContributors(k)

SpecEval == InitEval /\ [][NextEval]_vars

(* ------------------------- properties: evaluation ---------------------- *)

\* the ids the traversal from the ids in S can visit
RECURSIVE ReachFrom(_, _)
ReachFrom(nodes, S) ==
    LET T == S \cup UNION {Range(Get(nodes, x).children) :
                             x \in {y \in S : Has(nodes, y)
                                              /\ Get(nodes, y).type # "LEAF"}}
    IN  IF T = S THEN S ELSE ReachFrom(nodes, T)

Reachable(s) == ReachFrom(s.nodes, {s.root})

Descendants(nodes, x) ==
    IF Has(nodes, x) /\ Get(nodes, x).type # "LEAF"
    THEN ReachFrom(nodes, Range(Get(nodes, x).children)) ELSE {}

Acyclic(s) == \A x \in Reachable(s) : x \notin Descendants(s.nodes, x)

Closed(s) == Reachable(s) \subseteq Keys(s.nodes)

KnownKinds == {"AND", "OR", "LEAF"}

\* the reachable nodes on which an evaluation must fail
BadNodes(s) ==
    {x \in Reachable(s) :
        \/ Get(s.nodes, x).type \notin KnownKinds
        \/ Get(s.nodes, x).type = "LEAF" /\ Get(s.nodes, x).prob = None}

\* the reference recursion of the top-event probability
RECURSIVE RefValue(_, _), RefProduct(_, _, _), RefMissProduct(_, _, _)
RefValue(nodes, id) ==
    LET n == Get(nodes, id)
    IN  IF n.type = "LEAF" THEN n.prob
        ELSE IF n.type = "AND"
        THEN RefProduct(nodes, n.children, Len(n.children))
        ELSE RSub(One, RefMissProduct(nodes, n.children, Len(n.children)))

RefProduct(nodes, cs, k) ==
    IF k = 0 THEN One
    ELSE RMul(RefValue(nodes, cs[k]), RefProduct(nodes, cs, k - 1))

RefMissProduct(nodes, cs, k) ==
    IF k = 0 THEN One
    ELSE RMul(RSub(One, RefValue(nodes, cs[k])),
              RefMissProduct(nodes, cs, k - 1))

\* C1: on an acyclic mapping whose reachable nodes are AND, OR or LEAF and
\* whose reachable leaves have a probability, compute_probabilities returns
\* the value of the reference recursion (leaf: its probability; AND: the
\* product of the children's values, 1 without children; OR: 1 minus the
\* product of the complements, 0 without children).
C1_ReferenceValue ==
    (/\ req.op = "compute_probabilities"
     /\ Closed(spec) /\ Acyclic(spec) /\ BadNodes(spec) = {})
    => out = Value(RefValue(spec.nodes, spec.root))

\* an AND over a leaf and an OR, the OR over a leaf, and an empty AND/OR
C1_Witness ==
    /\ req.op = "compute_probabilities"
    /\ Closed(spec) /\ Acyclic(spec) /\ BadNodes(spec) = {}
    /\ Get(spec.nodes, "r").type = "AND"
    /\ Get(spec.nodes, "r").children = <<"b", "a">>
    /\ Get(spec.nodes, "a").type = "OR"
    /\ Get(spec.nodes, "a").children = <<"b">>
    /\ Get(spec.nodes, "b").prob = Rat(1, 4)
    /\ out.ok /\ out.val = Rat(1, 16)

\* C7: on an acyclic mapping compute_probabilities fails exactly when a
\* leaf without probability or a node of unknown kind is reachable from the
\* root; an unset probability elsewhere does not matter, a failure for an
\* unset probability names a reachable leaf that lacks it, and a reachable
\* node of unknown kind never lets a number come back.
C7_FailsIffBadReachable ==
    (/\ req.op = "compute_probabilities"
     /\ Closed(spec) /\ Acyclic(spec))
    => /\ ~out.ok <=> BadNodes(spec) # {}
       /\ ~out.ok => /\ out.err = "ValueError"
                     /\ out.id \in BadNodes(spec)
                     /\ out.msg = "Missing probability for leaf"
                        <=> Get(spec.nodes, out.id).type = "LEAF"
       /\ (\E x \in Reachable(spec) :
              Get(spec.nodes, x).type \notin KnownKinds) => ~out.ok

\* the evaluation succeeds although a leaf outside the tree has no
\* probability
C7_Witness ==
    /\ req.op = "compute_probabilities"
    /\ Closed(spec) /\ Acyclic(spec)
    /\ out.ok
    /\ \E i \in DOMAIN spec.nodes :
          /\ spec.nodes[i].type = "LEAF"
          /\ spec.nodes[i].prob = None
          /\ spec.nodes[i].id \notin Reachable(spec)
    /\ Get(spec.nodes, "r").children # <<>>

\* the normaliser returns s for the document that declares s
NormaliserAccepts(s) ==
    LET parsed == parse_spec(out_spec(s))
    IN  parsed.ok /\ parsed.spec = s

\* C3 (as claimed): on a Specification the normaliser accepts, when the
\* references reachable from the root contain a cycle, and nothing else is
\* wrong with the reachable nodes, the evaluation stops with a CycleError.
C3_CycleError ==
    (/\ req.op = "compute_probabilities"
     /\ NormaliserAccepts(spec)
     /\ Closed(spec) /\ ~Acyclic(spec) /\ BadNodes(spec) = {})
    => (~out.ok /\ out.err = "CycleError")

\* the positions of the leaves, and of those with both values
LeafPos(nodes) == {i \in DOMAIN nodes : nodes[i].type = "LEAF"}
CompletePos(nodes) ==
    {i \in LeafPos(nodes) : nodes[i].prob # None /\ nodes[i].impact # None}

Contribution(node) == RMul(node.prob, node.impact)

\* the sum of the contributions of the leaves at the positions in P
RECURSIVE SumAt(_, _)
SumAt(nodes, P) ==
    IF P = {} THEN Zero
    ELSE LET i == CHOOSE j \in P : TRUE
         IN  RAdd(Contribution(nodes[i]), SumAt(nodes, P \ {i}))

Min(P) == CHOOSE i \in P : \A j \in P : i <= j

\* C5: expected_loss returns the sum of probability x impact over all the
\* leaves of the mapping, reachable or not, and fails, naming the first
\* leaf in mapping order that lacks a probability or an impact, exactly when
\* some leaf lacks one.
C5_ExpectedLoss ==
    req.op = "expected_loss"
    => LET nodes == spec.nodes
           incomplete == LeafPos(nodes) \ CompletePos(nodes)
       IN  IF incomplete = {}
           THEN out = Value(SumAt(nodes, LeafPos(nodes)))
           ELSE /\ ~out.ok
                /\ out.err = "ValueError"
                /\ out.id = nodes[Min(incomplete)].id
                /\ out.msg = IF nodes[Min(incomplete)].prob = None
                             THEN "Missing probability for leaf"
                             ELSE "Missing impact for leaf"

\* a leaf outside the tree contributes to the sum
C5_Witness ==
    /\ req.op = "expected_loss"
    /\ out.ok
    /\ Get(spec.nodes, "r").type = "OR"
    /\ Get(spec.nodes, "r").children = <<"a">>
    /\ Get(spec.nodes, "a").type = "LEAF"
    /\ Get(spec.nodes, "b").type = "LEAF"
    /\ "b" \notin Reachable(spec)
    /\ Contribution(Get(spec.nodes, "a")) = Rat(1, 1)
    /\ Contribution(Get(spec.nodes, "b")) = Rat(2, 1)
    /\ out.val = Rat(3, 1)

\* leaf i comes before leaf j in the stable descending order
Before(nodes, i, j) ==
    \/ RLt(Contribution(nodes[j]), Contribution(nodes[i]))
    \/ Contribution(nodes[i]) = Contribution(nodes[j]) /\ i < j

\* the place of the complete leaf at position i in that order
Place(nodes, i) ==
    1 + Cardinality({j \in CompletePos(nodes) : Before(nodes, j, i)})

\* C6: top_contributors(nodes, k), k >= 0, returns min(k, number of leaves
\* with both values) entries: the first k of the leaves with both values in
\* the order of non-increasing probability x impact in which leaves of equal
\* value keep their mapping order; leaves lacking a value are left out.
C6_TopContributors ==
    req.op = "top_contributors"
    => LET nodes == spec.nodes
           n == Cardinality(CompletePos(nodes))
       IN  /\ Len(out) = IF req.k < n THEN req.k ELSE n
           /\ \A i \in CompletePos(nodes) :
                 Place(nodes, i) <= req.k
                 => out[Place(nodes, i)] =
                       [id |-> nodes[i].id, label |-> nodes[i].label,
                        value |-> Contribution(nodes[i])]

\* three complete leaves of equal value with k = 2: the first two of the
\* mapping are returned in mapping order
C6_Witness ==
    /\ req.op = "top_contributors"
    /\ req.k = 2
    /\ Cardinality(CompletePos(spec.nodes)) = 3
    /\ spec.nodes[2].prob # spec.nodes[3].prob
    /\ Contribution(spec.nodes[2]) = Contribution(spec.nodes[3])
    /\ RLt(Contribution(spec.nodes[1]), Contribution(spec.nodes[2]))
    /\ Len(out) = 2
    /\ out[1].id = spec.nodes[2].id
    /\ out[2].id = spec.nodes[3].id

(* ------------------------- properties: normaliser ---------------------- *)

\* the declarations of a document after kind-dependent defaulting, the root
\* declaration first
Decls(d) ==
    <<_normalise_node([id |-> d.id, label |-> d.label, type |-> d.type,
                       children |-> d.children, prob |-> None,
                       impact |-> None])>>
    \o [i \in DOMAIN d.nodes |-> _normalise_node(d.nodes[i])]

\* the helpers below take ds = Decls(d)
DeclaredIds(ds) == {ds[i].id : i \in DOMAIN ds}

\* the positions in ds that declare id
DeclPos(ds, id) == {i \in DOMAIN ds : ds[i].id = id}

\* the ids declared with two different kinds
Conflicts(ds) ==
    {id \in DeclaredIds(ds) :
        \E i, j \in DeclPos(ds, id) : ds[i].type # ds[j].type}

Max(P) == CHOOSE i \in P : \A j \in P : j <= i

\* the last declared value of id that is not null (not empty), else null
LastProb(ds, id) ==
    LET P == {i \in DeclPos(ds, id) : ds[i].prob # None}
    IN  IF P = {} THEN None ELSE ds[Max(P)].prob

LastImpact(ds, id) ==
    LET P == {i \in DeclPos(ds, id) : ds[i].impact # None}
    IN  IF P = {} THEN None ELSE ds[Max(P)].impact

LastChildren(ds, id) ==
    LET P == {i \in DeclPos(ds, id) : ds[i].children # <<>>}
    IN  IF P = {} THEN <<>> ELSE ds[Max(P)].children

\* the ids whose resulting children list names an undeclared id
Dangling(ds) ==
    {id \in DeclaredIds(ds) :
        Range(LastChildren(ds, id)) \ DeclaredIds(ds) # {}}

\* every child that any declaration of an internal node lists is declared
AllChildrenDeclared(ds) ==
    \A i \in DOMAIN ds : Range(ds[i].children) \subseteq DeclaredIds(ds)

\* C2: a document whose declarations all carry an id and do not conflict
\* in kind is refused with a SpecError naming parent and child exactly when
\* some resulting node lists a child that no declaration declares; it is
\* accepted, whatever the order of `nodes`, when every listed child is
\* declared; and in every returned Specification every child is a key.
C2_ClosedWorld ==
    out # Idle
    => LET ds == Decls(req.doc)
       IN  /\ out.ok => \A i \in DOMAIN out.spec.nodes :
                           Range(out.spec.nodes[i].children)
                              \subseteq Keys(out.spec.nodes)
           /\ (NoneStr \notin DeclaredIds(ds) /\ Conflicts(ds) = {})
              => /\ out.ok <=> Dangling(ds) = {}
                 /\ AllChildrenDeclared(ds) => out.ok
                 /\ ~out.ok => /\ out.err = "SpecError"
                               /\ out.msg = "references unknown child"
                               /\ out.id \in Dangling(ds)
                               /\ out.child \in Range(LastChildren(ds, out.id))
                                                   \ DeclaredIds(ds)

\* an internal node other than the root lists a child that is declared
\* nowhere, and the document is refused
C2_Witness ==
    /\ out # Idle
    /\ NoneStr \notin DeclaredIds(Decls(req.doc))
    /\ Conflicts(Decls(req.doc)) = {}
    /\ ~out.ok
    /\ out.id = "a" /\ out.child = "b"
    /\ Range(req.doc.children) \subseteq DeclaredIds(Decls(req.doc))
    /\ req.doc.children # <<>>

\* C4: when the declarations all carry an id, the document is refused with
\* a SpecError naming an id declared with two kinds (compared in upper case)
\* if there is one; otherwise every node of the returned Specification
\* carries the last non-null probability, the last non-null impact and the
\* last non-empty children list among the declarations of its id, each taken
\* after the defaulting of the declaration's kind.
C4_DuplicateResolution ==
    out # Idle
    => LET ds == Decls(req.doc)
       IN  NoneStr \notin DeclaredIds(ds)
           => IF Conflicts(ds) # {}
              THEN /\ ~out.ok
                   /\ out.err = "SpecError"
                   /\ out.msg = "Duplicate node id with conflicting types"
                   /\ out.id \in Conflicts(ds)
              ELSE out.ok
                   => /\ Keys(out.spec.nodes) = DeclaredIds(ds)
                      /\ \A id \in DeclaredIds(ds) :
                           LET n == Get(out.spec.nodes, id)
                           IN  /\ n.prob = LastProb(ds, id)
                               /\ n.impact = LastImpact(ds, id)
                               /\ n.children = LastChildren(ds, id)

\* a leaf declared twice, in different letter case, the first time with a
\* probability and the second time without: the probability survives
C4_Witness ==
    /\ out # Idle /\ out.ok
    /\ Len(req.doc.nodes) = 2
    /\ req.doc.nodes[1].id = req.doc.nodes[2].id
    /\ req.doc.nodes[1].type = "LEAF" /\ req.doc.nodes[2].type = "leaf"
    /\ req.doc.nodes[1].prob = Rat(1, 2) /\ req.doc.nodes[2].prob = None
    /\ req.doc.nodes[2].impact = Rat(4, 1)
    /\ Get(out.spec.nodes, req.doc.nodes[1].id).prob = Rat(1, 2)
    /\ Get(out.spec.nodes, req.doc.nodes[1].id).impact = Rat(4, 1)

(* -------------------------- properties: session ------------------------ *)

\* C8: a sensitivity preview, stored or refused, leaves the held
\* Specification as it was: root id and every node's id, label, kind,
\* children, probability and impact.
C8_PreviewKeepsSpec ==
    [][req'.op = "run_sensitivity" => spec' = spec]_vars

\* a preview was stored whose top-event probability differs from that of
\* the held Specification
C8_Witness ==
    /\ req.op = "run_sensitivity"
    /\ out.stored
    /\ sensitivity # NoSens
    /\ compute_probabilities(spec.root, spec.nodes).ok
    /\ sensitivity.p_top # compute_probabilities(spec.root, spec.nodes).val
    /\ Get(spec.nodes, sensitivity.leaf_id).prob = Rat(1, 2)

\* C9: a commit with multiplier m on a leaf of probability p stores
\* min(p x m, 1): never more than 1, and with no lower clamp; no other node
\* changes.
C9_CommitClamps ==
    [][(req'.op = "apply_sensitivity" /\ out'.applied)
       => LET l == sensitivity.leaf_id
              p == Get(spec.nodes, l).prob
              m == sensitivity.multiplier
              product == <<p[1] * m[1], p[2] * m[2]>>
              q == Get(spec'.nodes, l).prob
          IN  /\ q[2] > 0
              /\ IF product[1] <= product[2]
                 THEN q[1] * product[2] = product[1] * q[2]
                 ELSE q = <<1, 1>>
              /\ q[1] <= q[2]
              /\ (p[1] > 0 /\ m[1] = 0) => q[1] = 0
              /\ (p[1] > 0 /\ m[1] < 0) => q[1] < 0]_vars

\* 0.5 committed with multiplier 3 became exactly 1
C9_Witness ==
    /\ req.op = "apply_sensitivity"
    /\ out.applied
    /\ out.base_prob = Rat(1, 2)
    /\ out.multiplier = Rat(3, 1)
    /\ Get(spec.nodes, out.leaf_id).prob = Rat(1, 1)

\* the target of a sensitivity request is no leaf with a probability
BadTarget(leaf_id) ==
    \/ ~Has(spec.nodes, leaf_id)
    \/ Get(spec.nodes, leaf_id).type # "LEAF"
    \/ Get(spec.nodes, leaf_id).prob = None

\* C10: a sensitivity request on a loaded Specification whose target is
\* absent from the mapping, is not a LEAF, or is a leaf without probability
\* is refused: the Specification and the stored result stay as they were and
\* nothing is stored; with a numeric multiplier and a submitted id the
\* message is the not-a-valid-leaf one in the first two cases and the
\* missing-probability one in the third.
C10_RefusalKeepsState ==
    [][(req'.op = "run_sensitivity" /\ spec # NoSpec
        /\ BadTarget(req'.leaf_id))
       => /\ ~out'.stored
          /\ out'.flash # ""
          /\ spec' = spec
          /\ sensitivity' = sensitivity
          /\ (IsFloat(req'.multiplier) /\ req'.leaf_id # NoneStr)
             => out'.flash =
                  IF ~Has(spec.nodes, req'.leaf_id)
                     \/ Get(spec.nodes, req'.leaf_id).type # "LEAF"
                  THEN "Selected node is not a valid leaf"
                  ELSE "The selected leaf is missing a probability"]_vars

\* a request naming an id that is not in the mapping was refused while an
\* earlier result stayed stored
C10_Witness ==
    /\ req.op = "run_sensitivity"
    /\ ~out.stored
    /\ out.flash = "Selected node is not a valid leaf"
    /\ req.leaf_id = "c"
    /\ spec # NoSpec
    /\ sensitivity # NoSens

\* what a preview of leaf_id with multiplier m computes on the mapping
PreviewOf(s, leaf_id, m) ==
    LET p == Get(s.nodes, leaf_id).prob
        product == RMul(p, m)
        cloned == SetProb(s.nodes, leaf_id,
                          IF RLe(product, One) THEN product ELSE One)
    IN  [p_top |-> compute_probabilities(s.root, cloned),
         e_loss |-> expected_loss(cloned)]

\* C11: a stored sensitivity result always equals what a preview with its
\* leaf id and multiplier computes on the Specification held now; every
\* step that changes the Specification discards the stored result.
C11_NoStaleResult ==
    /\ [](sensitivity # NoSens
          => /\ spec # NoSpec
             /\ Has(spec.nodes, sensitivity.leaf_id)
             /\ Get(spec.nodes, sensitivity.leaf_id).type = "LEAF"
             /\ Get(spec.nodes, sensitivity.leaf_id).prob # None
             /\ LET pv == PreviewOf(spec, sensitivity.leaf_id,
                                    sensitivity.multiplier)
                IN  /\ pv.p_top.ok /\ pv.e_loss.ok
                    /\ sensitivity.p_top = pv.p_top.val
                    /\ sensitivity.e_loss = pv.e_loss.val)
    /\ [][spec' # spec => sensitivity' = NoSens]_vars

\* a result is stored for a Specification that an edit has changed since it
\* was loaded (the impact -4 comes from a form only)
C11_Witness ==
    /\ sensitivity # NoSens
    /\ sensitivity.leaf_id = "a"
    /\ Get(spec.nodes, "a").impact = Rat(-4, 1)
    /\ Has(spec.nodes, "b")
    /\ sensitivity.p_top # Get(spec.nodes, "a").prob

\* the value a submitted field string stands for, None when empty or not a
\* number
Submitted(str) == IF str # "" /\ IsFloat(str) THEN Float(str) ELSE None

ProbInRange(v) == v = None \/ (RLe(Zero, v) /\ RLe(v, One))

ImpactInRange(v) == v = None \/ RLe(Zero, v)

\* C12: an edit rejects every out-of-range field (a message is recorded for
\* the leaf and the value is not written) and writes every field that
\* passes validation.
C12_RejectedPerField ==
    [][(req'.op = "recalculate" /\ out'.done)
       => \A i \in DOMAIN spec.nodes :
            spec.nodes[i].type = "LEAF"
            => LET id == spec.nodes[i].id
                   p == Submitted(req'.form[id].prob)
                   im == Submitted(req'.form[id].impact)
                   after == Get(spec'.nodes, id)
               IN  /\ IF ProbInRange(p) THEN after.prob = p
                      ELSE /\ after.prob # p
                           /\ \E e \in Range(out'.errors) :
                                e.id = id
                                /\ e.msg = "Probability must be between 0 and 1"
                   /\ IF ImpactInRange(im) THEN after.impact = im
                      ELSE /\ after.impact # im
                           /\ \E e \in Range(out'.errors) :
                                e.id = id
                                /\ e.msg = "Impact must be non-negative"]_vars

\* C13: every LEAF of the held Specification has a probability that is unset
\* or within [0,1] and an impact that is unset or non-negative.
C13_LeafRanges ==
    \A i \in DOMAIN spec.nodes :
        spec.nodes[i].type = "LEAF"
        => /\ ProbInRange(spec.nodes[i].prob)
           /\ ImpactInRange(spec.nodes[i].impact)

\* C14: every node of a Specification the normaliser returns has a kind in
\* {AND, OR, LEAF}; a document with a missing or unknown kind yields none.
C14_ClosedKinds ==
    (out # Idle /\ out.ok)
    => \A i \in DOMAIN out.spec.nodes : out.spec.nodes[i].type \in KnownKinds

\* C17: whatever the shape of the value, the normaliser returns a
\* Specification or fails with SpecError.
C17_OnlySpecError ==
    out # Idle => (out.ok \/ out.err = "SpecError")

\* C15: normalising the exported document again yields the same root id, the
\* same node ids and, for every node, the same label, kind, children,
\* probability and impact.
C15_ExportRoundTrip ==
    (req.op = "download_spec" /\ out.sent)
    => LET again == _build_internal_spec(out.doc)
       IN  /\ again.ok
           /\ again.spec.root = spec.root
           /\ Keys(again.spec.nodes) = Keys(spec.nodes)
           /\ \A id \in Keys(spec.nodes) :
                Get(again.spec.nodes, id) = Get(spec.nodes, id)

\* C16: an upload or demo load whose parse fails produces no Specification
\* and leaves the held Specification and the stored sensitivity result as
\* they were; the held Specification is replaced only by the result of a
\* successful parse of the submitted document.
C16_AtomicParse ==
    [][req'.op \in {"analyze_post", "load_demo"}
       => IF out'.ok
          THEN /\ parse_spec(req'.doc).ok
               /\ spec' = parse_spec(req'.doc).spec
               /\ spec'.root \in Keys(spec'.nodes)
               /\ Closed(spec')
          ELSE /\ out'.parsed.spec = NoSpec
               /\ spec' = spec
               /\ sensitivity' = sensitivity]_vars

\* a failed upload while a Specification and a stored result are held
C16_Witness ==
    /\ req.op = "analyze_post"
    /\ ~out.ok
    /\ out.parsed.err = "AttributeError"
    /\ spec # NoSpec
    /\ sensitivity # NoSens

\* C18: the analysis view is rendered whatever fails, reports the results as
\* available exactly when nothing failed, and shows the result of every
\* evaluation operation that did not fail.
C18_IndependentFailures ==
    (req.op = "analyze_get" /\ spec # NoSpec)
    => LET p == compute_probabilities(spec.root, spec.nodes)
           e == expected_loss(spec.nodes)
       IN  /\ out.rendered
           /\ out.results_available = (p.ok /\ e.ok)
           /\ p.ok => out.p_top = p.val
           /\ e.ok => out.e_loss = e.val
           /\ out.top3 = top_contributors(spec.nodes, 3)

C20_KindDefaults ==
    \A i \in DOMAIN spec.nodes :
        IF spec.nodes[i].type = "LEAF"
        THEN spec.nodes[i].children = <<>>
        ELSE spec.nodes[i].prob = None /\ spec.nodes[i].impact = None

\* the document that declares children on leaf a and values on the root is
\* held, edited to other values, and a sensitivity commit has been applied
C20_Witness ==
    /\ spec # NoSpec
    /\ Get(spec.nodes, "r").type = "AND"
    /\ Get(spec.nodes, "r").children = <<"a">>
    /\ req.op = "apply_sensitivity"
    /\ out.applied
    /\ Get(spec.nodes, "a").impact = Rat(-4, 1)

\* C21: evaluating the Specification right after a commit gives the top-event
\* probability and the expected loss the committed preview had stored; a
\* commit with no stored result changes nothing.
C21_PreviewCommitAgree ==
    [][req'.op = "apply_sensitivity"
       => IF spec # NoSpec /\ sensitivity # NoSens
          THEN LET p == compute_probabilities(spec'.root, spec'.nodes)
                   e == expected_loss(spec'.nodes)
               IN  /\ p.ok /\ p.val = sensitivity.p_top
                   /\ e.ok /\ e.val = sensitivity.e_loss
                   /\ sensitivity' = NoSens
          ELSE spec' = spec /\ sensitivity' = sensitivity]_vars

\* a commit has raised a leaf probability to the clamp
C21_Witness ==
    /\ req.op = "apply_sensitivity"
    /\ out.applied
    /\ out.base_prob # None
    /\ RLt(out.base_prob, One)
    /\ RLt(One, RMul(out.base_prob, out.multiplier))
    /\ Get(spec.nodes, out.leaf_id).prob = One

\* id, label, kind and children of a node
Structure(node) ==
    [id |-> node.id, label |-> node.label, type |-> node.type,
     children |-> node.children]

\* C22: an edit, a preview or a commit keeps the root id, the node ids and
\* every node's id, label, kind and children; an edit changes only prob and
\* impact of LEAF nodes, a preview changes nothing, a commit changes only
\* the probability of the targeted leaf.
C22_StructureKept ==
    [][req'.op \in {"recalculate", "run_sensitivity", "apply_sensitivity"}
       => /\ spec'.root = spec.root
          /\ DOMAIN spec'.nodes = DOMAIN spec.nodes
          /\ \A i \in DOMAIN spec.nodes :
               /\ Structure(spec'.nodes[i]) = Structure(spec.nodes[i])
               /\ spec.nodes[i].type # "LEAF"
                  => spec'.nodes[i] = spec.nodes[i]
               /\ req'.op = "run_sensitivity"
                  => spec'.nodes[i] = spec.nodes[i]
               /\ req'.op = "apply_sensitivity"
                  => /\ spec'.nodes[i].impact = spec.nodes[i].impact
                     /\ spec.nodes[i].id # sensitivity.leaf_id
                        => spec'.nodes[i] = spec.nodes[i]
          /\ Closed(spec) => Closed(spec')]_vars

\* the two-leaf tree after a commit on leaf a that changed its probability
\* while leaf b kept the values an edit gave it
C22_Witness ==
    /\ req.op = "apply_sensitivity"
    /\ out.applied
    /\ out.leaf_id = "a"
    /\ out.base_prob # None
    /\ Get(spec.nodes, "a").prob # out.base_prob
    /\ Get(spec.nodes, "r").children = <<"a", "b">>
    /\ Get(spec.nodes, "b").impact = Rat(-4, 1)

====
